---------------------------- MODULE Spec2Model ----------------------------
(***************************************************************************)
(* A model of the lexer of js_parser (src/src/parser.rs).                  *)
(*                                                                         *)
(* The source text is a sequence of codepoints, each a one-character       *)
(* string.  One step of the model is one iteration of the dispatch loop of *)
(* parse(); the scanners it calls (read_string, read_numberic, ...) are    *)
(* operators that compute the cursor, the column and the token vector the  *)
(* call leaves behind, or the panic that ends the process.                 *)
(***************************************************************************)
EXTENDS Integers, Sequences, FiniteSets, TLC

VARIABLES
    src,                    \* readonly_string: the codepoints of the input
    overflow_checks,        \* build profile: are integer overflows checked
    position,               \* parse: the codepoint cursor
    line,                   \* parse: line
    column,                 \* parse: column
    tokens,                 \* parse: the token vector
    is_function_identifier, \* context.is_function_identifier
    statements,             \* context.statements, i.e. program.body
    status,                 \* "scanning", "done" (parse returned), "panic"
    error                   \* the panic that ended the scan, "" when none

vars == <<src, overflow_checks, position, line, column, tokens,
          is_function_identifier, statements, status, error>>

----------------------------------------------------------------------------
(* Bounds of the model.                                                    *)

MaxNumLen == 4
MaxStrLen == 4
MaxRegLen == 4
MaxFnLen == 3
MaxOpLen == 3

----------------------------------------------------------------------------
(* Character classes: the lazy_static regular expressions.                 *)

DigitChars == <<"0", "1", "2", "3", "4", "5", "6", "7", "8", "9">>

LowerChars ==
    {"a", "b", "c", "d", "e", "f", "g", "h", "i", "j", "k", "l", "m",
     "n", "o", "p", "q", "r", "s", "t", "u", "v", "w", "x", "y", "z"}

UpperChars ==
    {"A", "B", "C", "D", "E", "F", "G", "H", "I", "J", "K", "L", "M",
     "N", "O", "P", "Q", "R", "S", "T", "U", "V", "W", "X", "Y", "Z"}

Range(s) == {s[k] : k \in 1..Len(s)}

\* REG_NUMBERIC: [0-9]
REG_NUMBERIC(c) == c \in Range(DigitChars)

\* REG_IDENTIFIER: [0-9a-zA-Z$_]
REG_IDENTIFIER(c) ==
    c \in Range(DigitChars) \cup LowerChars \cup UpperChars \cup {"$", "_"}

\* REG_STRING_BOUNDARY: ['"]
REG_STRING_BOUNDARY(c) == c \in {"'", "\""}

\* REG_LINE_BREAK: [\n\r]
REG_LINE_BREAK(c) == c \in {"\n", "\r"}

\* REG_WHITESPACE: \s (the ASCII members of the class)
REG_WHITESPACE(c) == c \in {" ", "\t", "\n", "\r", "\f"}

----------------------------------------------------------------------------
(* The source buffer.                                                      *)

Min(a, b) == IF a < b THEN a ELSE b

\* ReadonlyString::slice -> utf8_slice::slice: the codepoints in
\* [begin, end), clamped to the length; empty when end < begin.
slice(s, begin, end) ==
    IF end < begin THEN <<>> ELSE SubSeq(s, begin + 1, Min(end, Len(s)))

\* get_char: the one-codepoint slice at position, "" past the end.
get_char(s, p) ==
    LET one == slice(s, p, p + 1) IN IF one = <<>> THEN "" ELSE one[1]

----------------------------------------------------------------------------
(* The token model.                                                        *)

Punctuators ==
    {<<<<"=", "=">>, "Comparation", "DoubleE">>,
     <<<<"=", "=", "=">>, "Comparation", "TripleE">>,
     <<<<"!", "=">>, "Comparation", "DoubleNE">>,
     <<<<"!", "=", "=">>, "Comparation", "TripleNE">>,
     <<<<"<">>, "Comparation", "LT">>,
     <<<<"<", "=">>, "Comparation", "LTE">>,
     <<<<">">>, "Comparation", "GT">>,
     <<<<">", "=">>, "Comparation", "GTE">>,
     <<<<"+">>, "Arithmetic", "Plus">>,
     <<<<"-">>, "Arithmetic", "Minus">>,
     <<<<"*">>, "Arithmetic", "Multiple">>,
     <<<<"/">>, "Arithmetic", "Divide">>,
     <<<<"%">>, "Arithmetic", "Modulo">>,
     <<<<"=">>, "Assign", "Normal">>,
     <<<<"+", "=">>, "Assign", "Addition">>,
     <<<<"-", "=">>, "Assign", "Subtraction">>,
     <<<<"*", "=">>, "Assign", "Multiplication">>,
     <<<<"/", "=">>, "Assign", "Division">>,
     <<<<"?", "?", "=">>, "Assign", "NullishCoalescing">>,
     <<<<"(">>, "ParenL", "">>,
     <<<<")">>, "ParenR", "">>,
     <<<<"[">>, "BracketL", "">>,
     <<<<"]">>, "BracketR", "">>,
     <<<<"{">>, "BraceL", "">>,
     <<<<"}">>, "BraceR", "">>,
     <<<<".">>, "Dot", "">>,
     <<<<"?", ".">>, "QuestionDot", "">>,
     <<<<";">>, "Semi", "">>,
     <<<<",">>, "Comma", "">>,
     <<<<":">>, "Colon", "">>,
     <<<<"?">>, "Question", "">>,
     <<<<"?", "?">>, "NullishCoalesce", "">>,
     <<<<"!">>, "LogicalInversion", "">>,
     <<<<"~">>, "BitwiseInversion", "">>,
     <<<<"|", "|">>, "LogicalOR", "">>,
     <<<<"|">>, "BitwiseOR", "">>,
     <<<<"&", "&">>, "LogicalAND", "">>,
     <<<<"&">>, "BitwiseAND", "">>,
     <<<<"+", "+">>, "Increment", "">>,
     <<<<"-", "-">>, "Decrement", "">>,
     <<<<"=", ">">>, "Arrow", "">>}

None == [type |-> "None"]

\* get_operator_by_chars: Some(token) for an entry of the table, else None.
\* An operator token is [type, op]; op is "" for a plain punctuator.
get_operator_by_chars(chars) ==
    IF \E e \in Punctuators : e[1] = chars
    THEN LET e == CHOOSE e \in Punctuators : e[1] = chars
         IN  [type |-> e[2], op |-> e[3]]
    ELSE None

Keywords ==
    {<<<<"v", "a", "r">>, "Var">>,
     <<<<"l", "e", "t">>, "Let">>,
     <<<<"c", "o", "n", "s", "t">>, "Const">>,
     <<<<"f", "u", "n", "c", "t", "i", "o", "n">>, "Function">>,
     <<<<"r", "e", "t", "u", "r", "n">>, "Return">>,
     <<<<"f", "o", "r">>, "For">>,
     <<<<"o", "f">>, "Of">>,
     <<<<"d", "o">>, "Do">>,
     <<<<"w", "h", "i", "l", "e">>, "While">>,
     <<<<"b", "r", "e", "a", "k">>, "Break">>,
     <<<<"c", "o", "n", "t", "i", "n", "u", "e">>, "Continue">>,
     <<<<"s", "w", "i", "t", "c", "h">>, "Switch">>,
     <<<<"c", "a", "s", "e">>, "Case">>,
     <<<<"t", "h", "r", "o", "w">>, "Throw">>,
     <<<<"t", "r", "y">>, "Try">>,
     <<<<"c", "a", "t", "c", "h">>, "Catch">>,
     <<<<"f", "i", "n", "a", "l", "l", "y">>, "Finally">>,
     <<<<"i", "f">>, "If">>,
     <<<<"e", "l", "s", "e">>, "Else">>,
     <<<<"n", "e", "w">>, "New">>,
     <<<<"t", "h", "i", "s">>, "This">>,
     <<<<"s", "u", "p", "e", "r">>, "Super">>,
     <<<<"d", "e", "l", "e", "t", "e">>, "Delete">>,
     <<<<"c", "l", "a", "s", "s">>, "Class">>,
     <<<<"e", "x", "t", "e", "n", "d", "s">>, "Extends">>,
     <<<<"i", "n", "s", "t", "a", "n", "c", "e", "o", "f">>, "Instanceof">>,
     <<<<"t", "y", "p", "e", "o", "f">>, "Typeof">>,
     <<<<"i", "m", "p", "o", "r", "t">>, "Import">>,
     <<<<"e", "x", "p", "o", "r", "t">>, "Export">>,
     <<<<"d", "e", "f", "a", "u", "l", "t">>, "Default">>,
     <<<<"n", "u", "l", "l">>, "Null">>,
     <<<<"u", "n", "d", "e", "f", "i", "n", "e", "d">>, "Undefined">>,
     <<<<"t", "r", "u", "e">>, "True">>,
     <<<<"f", "a", "l", "s", "e">>, "False">>,
     <<<<"v", "o", "i", "d">>, "Void">>,
     <<<<"i", "n">>, "In">>}

\* The match of read_keyword_or_name with its "return" arm missing: `return`
\* falls through to the Name arm.
keyword_or_name_without_return(identifier) ==
    IF \E k \in Keywords : k[1] = identifier /\ k[2] # "Return"
    THEN [type |-> (CHOOSE k \in Keywords : k[1] = identifier)[2]]
    ELSE [type |-> "Name", name |-> identifier]

\* The match of read_keyword_or_name: a keyword token, else Name(identifier).
keyword_or_name(identifier) ==
    IF \E k \in Keywords : k[1] = identifier
    THEN [type |-> (CHOOSE k \in Keywords : k[1] = identifier)[2]]
    ELSE [type |-> "Name", name |-> identifier]

\* A scanner's outcome: the cursor, the column and the token vector it leaves,
\* and the panic it raised ("" when it returned).
Outcome(p, col, toks, err) ==
    [position |-> p, column |-> col, tokens |-> toks, error |-> err]


----------------------------------------------------------------------------
(* read_string                                                             *)

\* The scanning loop of read_string stopping at a quote of either kind
\* instead of the one that opened the literal.
RECURSIVE read_string_loop_any_quote(_, _, _, _, _)
read_string_loop_any_quote(s, boundary, p, col, esc) ==
    LET current_char == get_char(s, p) IN
    IF /\ p < Len(s)
       /\ (~REG_STRING_BOUNDARY(current_char) \/ esc)
       /\ ~REG_LINE_BREAK(current_char)
    THEN read_string_loop_any_quote(s, boundary, p + 1, col + 1,
                                    IF esc THEN FALSE ELSE current_char = "\\")
    ELSE [position |-> p, column |-> col]

\* The scanning loop of read_string: the cursor and the column where it
\* stops.  A backslash sets esc, which protects exactly the next codepoint.
RECURSIVE read_string_loop(_, _, _, _, _)
read_string_loop(s, boundary, p, col, esc) ==
    LET current_char == get_char(s, p) IN
    IF /\ p < Len(s)
       /\ (current_char # boundary \/ esc)
       /\ ~REG_LINE_BREAK(current_char)
    THEN read_string_loop(s, boundary, p + 1, col + 1,
                          IF esc THEN FALSE ELSE current_char = "\\")
    ELSE [position |-> p, column |-> col]

\* The content of a String token, cut from its raw text.
string_content(raw) == slice(raw, 1, Len(raw))

read_string(s, p, toks, col) ==
    LET start    == p
        boundary == get_char(s, start)
        stop     == read_string_loop(s, boundary, start + 1, col, FALSE)
        raw      == slice(s, start, stop.position + 1)
    IN  IF get_char(s, stop.position) # boundary
        THEN Outcome(stop.position, stop.column, toks, "Unexpected character")
        ELSE Outcome(stop.position + 1, stop.column,
                     Append(toks, [type |-> "String", raw |-> raw,
                                   content |-> string_content(raw)]),
                     "")

----------------------------------------------------------------------------
(* read_numberic                                                           *)

DigitValue(c) == (CHOOSE k \in 1..Len(DigitChars) : DigitChars[k] = c) - 1

RECURSIVE DecimalValue(_)
DecimalValue(digits) ==
    IF digits = <<>> THEN 0
    ELSE 10 * DecimalValue(SubSeq(digits, 1, Len(digits) - 1))
         + DigitValue(digits[Len(digits)])

\* str::parse::<f64> on a run of [0-9_]: Err on the empty string and on any
\* `_`, else the value of the digits (exact in an f64 below 2^53, which the
\* bounds of the model keep every run under).
parse_f64(content) ==
    IF content = <<>> \/ "_" \in Range(content)
    THEN [ok |-> FALSE, value |-> 0]
    ELSE [ok |-> TRUE, value |-> DecimalValue(content)]

\* str::parse::<i128> on a run of [0-9_]: Err on the empty string and on any
\* `_`, else the value of the digits (no run of the model reaches 2^127).
parse_i128(content) ==
    IF content = <<>> \/ "_" \in Range(content)
    THEN [ok |-> FALSE, value |-> 0]
    ELSE [ok |-> TRUE, value |-> DecimalValue(content)]

\* "find number system": the radix tag and the codepoints of its prefix.
number_system(s, start) ==
    LET c0 == get_char(s, start)
        c1 == get_char(s, start + 1)
    IN  IF c0 = "0" /\ c1 = "b" THEN [system |-> "Binary", skip |-> 2]
        ELSE IF c0 = "0" /\ c1 = "x" THEN [system |-> "Hex", skip |-> 2]
        ELSE IF c0 = "0" THEN [system |-> "Octal", skip |-> 1]
        ELSE [system |-> "Decimal", skip |-> 0]

\* The digit loop of read_numberic without its `separate` check: any run of
\* digits and `_` is consumed.
RECURSIVE read_numberic_loop_unchecked(_, _, _, _)
read_numberic_loop_unchecked(s, p, col, separate) ==
    LET current_char == get_char(s, p) IN
    IF p < Len(s) /\ (REG_NUMBERIC(current_char) \/ current_char = "_")
    THEN read_numberic_loop_unchecked(s, p + 1, col + 1, current_char = "_")
    ELSE [position |-> p, column |-> col, error |-> ""]

\* The digit loop of read_numberic: digits and single `_` separators.
RECURSIVE read_numberic_loop(_, _, _, _)
read_numberic_loop(s, p, col, separate) ==
    LET current_char == get_char(s, p) IN
    IF p < Len(s) /\ (REG_NUMBERIC(current_char) \/ current_char = "_")
    THEN IF current_char = "_" /\ separate
         THEN [position |-> p, column |-> col,
               error |-> "Only one underscore is allowed as numeric separator"]
         ELSE read_numberic_loop(s, p + 1, col + 1, current_char = "_")
    ELSE [position |-> p, column |-> col, error |-> ""]

read_numberic(s, p, toks, col) ==
    LET start         == p
        sys           == number_system(s, start)
        content_start == start + sys.skip
        stop          == read_numberic_loop(s, content_start, col, FALSE)
        content       == slice(s, content_start, stop.position)
    IN  IF get_char(s, content_start) = "_"
        THEN Outcome(content_start, col, toks,
               "Numeric separators are not allowed at the first of numeric literals")
        ELSE IF stop.error # ""
        THEN Outcome(stop.position, stop.column, toks, stop.error)
        ELSE IF get_char(s, stop.position) = "n"
        THEN \* parse bigint: the cursor stays where the loop left it
             IF parse_i128(content).ok
             THEN Outcome(stop.position, stop.column,
                          Append(toks, [type   |-> "Bigint",
                                        raw    |-> slice(s, start, stop.position + 1),
                                        system |-> sys.system,
                                        value  |-> parse_i128(content).value]),
                          "")
             ELSE Outcome(stop.position, stop.column, toks,
                          "unwrap on Err: ParseIntError")
        ELSE \* parse number
             IF parse_f64(content).ok
             THEN Outcome(stop.position, stop.column,
                          Append(toks, [type   |-> "Number",
                                        raw    |-> slice(s, start, stop.position),
                                        system |-> sys.system,
                                        value  |-> parse_f64(content).value]),
                          "")
             ELSE Outcome(stop.position, stop.column, toks,
                          "unwrap on Err: ParseFloatError")

----------------------------------------------------------------------------
(* read_reg_exp                                                            *)

RECURSIVE read_reg_exp_loop(_, _, _, _)
read_reg_exp_loop(s, p, col, esc) ==
    LET current_char == get_char(s, p) IN
    IF /\ p < Len(s)
       /\ (current_char # "/" \/ esc)
       /\ ~REG_LINE_BREAK(current_char)
    THEN read_reg_exp_loop(s, p + 1, col + 1,
                           IF esc THEN FALSE ELSE current_char = "\\")
    ELSE [position |-> p, column |-> col]

\* "let modifier = match src.slice(position, position + 1)"
reg_exp_modifier(s, p) ==
    IF get_char(s, p) = "i" THEN "I"
    ELSE IF get_char(s, p) = "g" THEN "G"
    ELSE "None"

\* The pattern body of a RegExp token; p is the cursor after the closing `/`
\* and after the modifier, when there is one.
reg_exp_content(s, start, p, modifier) ==
    slice(s, start + 1, IF modifier # "None" THEN p - 2 ELSE p)

read_reg_exp(s, p, toks, col) ==
    LET start        == p
        stop         == read_reg_exp_loop(s, start + 1, col, FALSE)
        current_char == get_char(s, stop.position)
        modifier     == reg_exp_modifier(s, stop.position + 1)
        after        == IF modifier # "None" THEN stop.position + 2
                                             ELSE stop.position + 1
    IN  IF current_char # "/" /\ current_char # "i" /\ current_char # "g"
        THEN Outcome(stop.position, stop.column, toks, "Unexpected character")
        ELSE Outcome(after, stop.column,
                     Append(toks, [type     |-> "RegExp",
                                   raw      |-> slice(s, start, after),
                                   content  |-> reg_exp_content(s, start, after, modifier),
                                   modifier |-> modifier]),
                     "")

----------------------------------------------------------------------------
(* read_private_name                                                       *)

RECURSIVE identifier_loop(_, _, _)
identifier_loop(s, p, col) ==
    IF p < Len(s) /\ REG_IDENTIFIER(get_char(s, p))
    THEN identifier_loop(s, p + 1, col + 1)
    ELSE [position |-> p, column |-> col]

read_private_name(s, p, toks, col) ==
    LET start == p
        stop  == identifier_loop(s, start + 1, col)
    IN  Outcome(stop.position, stop.column,
                Append(toks, [type    |-> "PrivateName",
                              raw     |-> slice(s, start, stop.position),
                              content |-> slice(s, start + 1, stop.position)]),
                "")

----------------------------------------------------------------------------
(* read_keyword_or_name, read_identifier                                   *)

\* The outcome of a scanner that is handed the context as well.
ContextOutcome(o, flag, stmts) ==
    [position |-> o.position, column |-> o.column, tokens |-> o.tokens,
     error |-> o.error, is_function_identifier |-> flag, statements |-> stmts]

\* read_keyword_or_name with parts of its "validate token" match left out:
\* sets_flag is whether the Function arm sets is_function_identifier, pushes
\* whether the Name arm pushes its FunctionDeclaration.
read_keyword_or_name_variant(s, flag, stmts, p, toks, col, sets_flag, pushes) ==
    LET stop       == identifier_loop(s, p, col)
        identifier == slice(s, p, stop.position)
        token      == keyword_or_name(identifier)
        pushed     == Outcome(stop.position, stop.column, Append(toks, token), "")
    IN  IF token.type = "Name"
        THEN ContextOutcome(pushed, FALSE,
                 IF pushes
                 THEN Append(stmts, [type |-> "FunctionDeclaration", id |-> identifier])
                 ELSE stmts)
        ELSE IF token.type = "Function"
        THEN ContextOutcome(pushed, IF sets_flag THEN TRUE ELSE flag, stmts)
        ELSE IF flag
        THEN ContextOutcome(
                 Outcome(stop.position, stop.column, toks, "Unexpected token"),
                 flag, stmts)
        ELSE ContextOutcome(pushed, flag, stmts)

\* The Function arm without `context.is_function_identifier = true`.
read_keyword_or_name_flag_not_set(s, flag, stmts, p, toks, col) ==
    read_keyword_or_name_variant(s, flag, stmts, p, toks, col, FALSE, TRUE)

\* The Name arm without its push onto context.statements.
read_keyword_or_name_no_push(s, flag, stmts, p, toks, col) ==
    read_keyword_or_name_variant(s, flag, stmts, p, toks, col, TRUE, FALSE)

\* context.expressions is None throughout (Context::new, never assigned), so
\* the FunctionExpression push of the Function arm never runs.
read_keyword_or_name(s, flag, stmts, p, toks, col) ==
    LET start      == p
        stop       == identifier_loop(s, start, col)
        identifier == slice(s, start, stop.position)
        token      == keyword_or_name(identifier)
    IN  IF token.type = "Name"
        THEN ContextOutcome(
                 Outcome(stop.position, stop.column, Append(toks, token), ""),
                 FALSE,
                 Append(stmts, [type |-> "FunctionDeclaration", id |-> identifier]))
        ELSE IF token.type = "Function"
        THEN ContextOutcome(
                 Outcome(stop.position, stop.column, Append(toks, token), ""),
                 TRUE, stmts)
        ELSE IF flag
        THEN ContextOutcome(
                 Outcome(stop.position, stop.column, toks, "Unexpected token"),
                 flag, stmts)
        ELSE ContextOutcome(
                 Outcome(stop.position, stop.column, Append(toks, token), ""),
                 flag, stmts)

read_identifier(s, flag, stmts, p, toks, col) ==
    LET first_char == get_char(s, p) IN
    IF REG_NUMBERIC(first_char)
    THEN ContextOutcome(read_numberic(s, p, toks, col), flag, stmts)
    ELSE IF first_char = "/"
    THEN ContextOutcome(read_reg_exp(s, p, toks, col), flag, stmts)
    ELSE IF first_char = "#"
    THEN ContextOutcome(read_private_name(s, p, toks, col), flag, stmts)
    ELSE read_keyword_or_name(s, flag, stmts, p, toks, col)

----------------------------------------------------------------------------
(* read_operator                                                           *)

\* read_operator trying its windows in the opposite order: 1 codepoint, then
\* 2, then 3.
read_operator_shortest_first(s, p, toks, col) ==
    LET char3 == slice(s, p, p + 3)
        char2 == slice(s, p, p + 2)
        char1 == slice(s, p, p + 1)
    IN  IF get_operator_by_chars(char1) # None
        THEN Outcome(p + 1, col + 1, Append(toks, get_operator_by_chars(char1)), "")
        ELSE IF get_operator_by_chars(char2) # None
        THEN Outcome(p + 2, col + 2, Append(toks, get_operator_by_chars(char2)), "")
        ELSE IF get_operator_by_chars(char3) # None
        THEN Outcome(p + 3, col + 3, Append(toks, get_operator_by_chars(char3)), "")
        ELSE Outcome(p + 1, col + 1, toks, "Unexpected character")

\* Longest match: the 3-codepoint window, then 2, then 1.  The 1-codepoint
\* arm advances the cursor and the column before its expect() panics.
read_operator(s, p, toks, col) ==
    LET char3 == slice(s, p, p + 3)
        char2 == slice(s, p, p + 2)
        char1 == slice(s, p, p + 1)
    IN  IF get_operator_by_chars(char3) # None
        THEN Outcome(p + 3, col + 3, Append(toks, get_operator_by_chars(char3)), "")
        ELSE IF get_operator_by_chars(char2) # None
        THEN Outcome(p + 2, col + 2, Append(toks, get_operator_by_chars(char2)), "")
        ELSE IF get_operator_by_chars(char1) # None
        THEN Outcome(p + 1, col + 1, Append(toks, get_operator_by_chars(char1)), "")
        ELSE Outcome(p + 1, col + 1, toks, "Unexpected character")

----------------------------------------------------------------------------
(* find_prev_char_ignore_whitespace, validate_token                        *)

\* The backward loop, entered with 0 <= i.  Stepping below index 0 makes
\* i = -1 and evaluates get_char(str, i as usize), whose position + 1
\* overflows usize: a panic in a build with overflow checks; without them the
\* sum wraps to 0, the slice [usize::MAX, 0) is empty and the loop ends on
\* i = -1, which the final match reports as "".  lowest is the least value of
\* i that get_char was evaluated at.
RECURSIVE find_prev_loop(_, _, _)
find_prev_loop(s, i, checks) ==
    IF REG_WHITESPACE(get_char(s, i))
    THEN IF i = 0
         THEN IF checks
              THEN [char |-> "", error |-> "attempt to add with overflow",
                    lowest |-> -1]
              ELSE [char |-> "", error |-> "", lowest |-> -1]
         ELSE find_prev_loop(s, i - 1, checks)
    ELSE [char |-> get_char(s, i), error |-> "", lowest |-> i]

find_prev_char_ignore_whitespace(s, start, checks) ==
    IF start = 0 THEN [char |-> "", error |-> "", lowest |-> 0]
    ELSE find_prev_loop(s, start - 1, checks)

\* validate_token: the panic it raises, "" when it returns.
validate_token(flag) == IF flag THEN "Unexpected character" ELSE ""

\* The `/` arm of the dispatch loop: is this `/` an operator?
slash_is_operator(prev_char) ==
    REG_IDENTIFIER(prev_char) \/ prev_char = ")" \/ prev_char = "]"

----------------------------------------------------------------------------
(* The inputs the scans of the model start from.                           *)

StringsUpTo(chars, n) == UNION {[1..k -> chars] : k \in 0..n}

FunctionKeyword == <<"f", "u", "n", "c", "t", "i", "o", "n">>

\* The program text of main.rs, without its leading line break.
PlusSrc ==
    <<"f", "u", "n", "c", "t", "i", "o", "n", " ", "p", "l", "u", "s", "(",
      "a", ",", " ", "b", ")", " ", "{", "\n", " ", " ", "r", "e", "t", "u",
      "r", "n", " ", "a", " ", "+", " ", "b", "\n", "}", "\n">>

NumericInputs == StringsUpTo({"0", "1", "_", "n", "b", "x", "f"}, MaxNumLen)

StringInputs == StringsUpTo({"\"", "'", "\\", "\n", "a"}, MaxStrLen)

RegExpPrefixes ==
    {<<>>, <<" ">>, <<"\n", " ">>, <<"a", " ">>, <<"i", "n", " ">>,
     <<"1", " ">>, <<")">>, <<"]", " ">>, <<"=", " ">>}

RegExpInputs ==
    {pre \o s : pre \in RegExpPrefixes,
                s \in StringsUpTo({"/", "\\", "i", "=", "\n"}, MaxRegLen)}

FunctionInputs ==
    {FunctionKeyword \o s :
        s \in StringsUpTo({" ", "1", "\"", "/", "#", "=", "i", "n"}, MaxFnLen)}

OperatorInputs == StringsUpTo({"=", "!", "?", ".", "+", "@"}, MaxOpLen)

NamedInputs ==
    {PlusSrc,
     <<"1", "_", "0", "0", "0">>,
     <<"1", "2", "3", "n">>,
     <<"0", "x", "1", "f">>,
     <<"0", "b", "1", "0", "1">>,
     <<"0", "1", "7">>,
     <<"\"", "a", "\\", "\"", "b", "\"">>,
     <<"/", "a", "b", "/", "i">>,
     <<"/", "a", "b", "/", "g">>,
     <<"a", " ", "/", " ", "b">>,
     <<"#", "f", "o", "o", "1", "2", "3">>,
     FunctionKeyword \o <<" ">> \o FunctionKeyword \o <<" ", "a">>}

Inputs ==
    NumericInputs \cup StringInputs \cup RegExpInputs \cup FunctionInputs
        \cup OperatorInputs \cup NamedInputs

----------------------------------------------------------------------------
(* parse                                                                   *)

Init ==
    /\ src \in Inputs
    /\ overflow_checks \in BOOLEAN
    /\ position = 0
    /\ line = 1
    /\ column = 0
    /\ tokens = <<>>
    /\ is_function_identifier = FALSE
    /\ statements = <<>>
    /\ status = "scanning"
    /\ error = ""

\* The head of the dispatch loop: while position < readonly_string.length.
Scanning == status = "scanning" /\ position < Len(src)

char == get_char(src, position)

\* The scan goes on from a scanner's outcome, or ends in its panic.
Apply(o) ==
    /\ position' = o.position
    /\ column' = o.column
    /\ tokens' = o.tokens
    /\ error' = o.error
    /\ status' = IF o.error = "" THEN "scanning" ELSE "panic"

\* A panic raised by the dispatch loop itself, before any scanner ran.
Panic(message) == Outcome(position, column, tokens, message)

\* The whitespace arm without its `position += 1`.
Whitespace_cursor_kept ==
    /\ Scanning
    /\ REG_WHITESPACE(char)
    /\ position' = position
    /\ IF REG_LINE_BREAK(char)
       THEN line' = line + 1 /\ column' = 0
       ELSE line' = line /\ column' = column + 1
    /\ UNCHANGED <<src, overflow_checks, tokens, is_function_identifier,
                   statements, status, error>>

Whitespace ==
    /\ Scanning
    /\ REG_WHITESPACE(char)
    /\ position' = position + 1
    /\ IF REG_LINE_BREAK(char)
       THEN line' = line + 1 /\ column' = 0
       ELSE line' = line /\ column' = column + 1
    /\ UNCHANGED <<src, overflow_checks, tokens, is_function_identifier,
                   statements, status, error>>

Slash ==
    /\ Scanning
    /\ ~REG_WHITESPACE(char)
    /\ char = "/"
    /\ LET prev == find_prev_char_ignore_whitespace(src, position, overflow_checks)
       IN  Apply(IF validate_token(is_function_identifier) # ""
                 THEN Panic(validate_token(is_function_identifier))
                 ELSE IF prev.error # ""
                 THEN Panic(prev.error)
                 ELSE IF slash_is_operator(prev.char)
                 THEN read_operator(src, position, tokens, column)
                 ELSE read_reg_exp(src, position, tokens, column))
    /\ UNCHANGED <<src, overflow_checks, line, is_function_identifier, statements>>

StringBoundary ==
    /\ Scanning
    /\ ~REG_WHITESPACE(char)
    /\ char # "/"
    /\ REG_STRING_BOUNDARY(char)
    /\ Apply(IF validate_token(is_function_identifier) # ""
             THEN Panic(validate_token(is_function_identifier))
             ELSE read_string(src, position, tokens, column))
    /\ UNCHANGED <<src, overflow_checks, line, is_function_identifier, statements>>

PrivateName ==
    /\ Scanning
    /\ ~REG_WHITESPACE(char)
    /\ char # "/"
    /\ ~REG_STRING_BOUNDARY(char)
    /\ char = "#"
    /\ Apply(IF validate_token(is_function_identifier) # ""
             THEN Panic(validate_token(is_function_identifier))
             ELSE read_private_name(src, position, tokens, column))
    /\ UNCHANGED <<src, overflow_checks, line, is_function_identifier, statements>>

Identifier ==
    /\ Scanning
    /\ ~REG_WHITESPACE(char)
    /\ char # "/"
    /\ ~REG_STRING_BOUNDARY(char)
    /\ char # "#"
    /\ REG_IDENTIFIER(char)
    /\ LET o == read_identifier(src, is_function_identifier, statements,
                                position, tokens, column)
       IN  /\ Apply(o)
           /\ is_function_identifier' = o.is_function_identifier
           /\ statements' = o.statements
    /\ UNCHANGED <<src, overflow_checks, line>>

Operator ==
    /\ Scanning
    /\ ~REG_WHITESPACE(char)
    /\ char # "/"
    /\ ~REG_STRING_BOUNDARY(char)
    /\ char # "#"
    /\ ~REG_IDENTIFIER(char)
    /\ Apply(IF validate_token(is_function_identifier) # ""
             THEN Panic(validate_token(is_function_identifier))
             ELSE read_operator(src, position, tokens, column))
    /\ UNCHANGED <<src, overflow_checks, line, is_function_identifier, statements>>

\* The loop condition fails: parse returns the program.
Return ==
    /\ status = "scanning"
    /\ position >= Len(src)
    /\ status' = "done"
    /\ UNCHANGED <<src, overflow_checks, position, line, column, tokens,
                   is_function_identifier, statements, error>>

Next ==
    \/ Whitespace
    \/ Slash
    \/ StringBoundary
    \/ PrivateName
    \/ Identifier
    \/ Operator
    \/ Return

Spec == Init /\ [][Next]_vars

----------------------------------------------------------------------------
(* Vocabulary of the properties.                                           *)

LastToken == IF tokens = <<>> THEN None ELSE tokens[Len(tokens)]

\* This step of the scan pushed exactly one token.
Emitted == Len(tokens') = Len(tokens) + 1

EmittedToken == tokens'[Len(tokens')]

KeywordTypes == {k[2] : k \in Keywords}

OperatorTypes == {e[2] : e \in Punctuators}

LineBreaksBefore(s, p) ==
    Cardinality({k \in 1..Min(p, Len(s)) : REG_LINE_BREAK(s[k])})

AllIn(s, chars) == \A k \in 1..Len(s) : s[k] \in chars

Name(text) == [type |-> "Name", name |-> text]

Punctuator(type) == [type |-> type, op |-> ""]

----------------------------------------------------------------------------
(* C1: the end-to-end scan of the example program.                         *)

PlusTokens ==
    <<[type |-> "Function"], Name(<<"p", "l", "u", "s">>), Punctuator("ParenL"),
      Name(<<"a">>), Punctuator("Comma"), Name(<<"b">>), Punctuator("ParenR"),
      Punctuator("BraceL"), [type |-> "Return"], Name(<<"a">>),
      [type |-> "Arithmetic", op |-> "Plus"], Name(<<"b">>),
      Punctuator("BraceR")>>

\* C1: the scan of `function plus(a, b) {` / `  return a + b` / `}` never
\* panics, the tokens it has emitted are always the first tokens of the
\* expected sequence, it returns with exactly that sequence, and at every
\* iteration line is 1 plus the number of line breaks consumed (4 at the end).
C1_EndToEnd ==
    src = PlusSrc =>
        /\ status # "panic"
        /\ tokens = SubSeq(PlusTokens, 1, Len(tokens))
        /\ line = 1 + LineBreaksBefore(src, position)
        /\ status = "done" => tokens = PlusTokens /\ line = 4

C1_Witness ==
    src = PlusSrc /\ status = "done" /\ Len(tokens) = 13 /\ line = 4

----------------------------------------------------------------------------
(* C2: the content of a String token.                                      *)

\* C2: every String token's raw text is the literal with both its quotes,
\* and its content is the raw text without the opening and the closing quote.
C2_StringContent ==
    \A k \in 1..Len(tokens) :
        tokens[k].type = "String" =>
            LET raw == tokens[k].raw IN
            /\ Len(raw) >= 2
            /\ REG_STRING_BOUNDARY(raw[1])
            /\ raw[Len(raw)] = raw[1]
            /\ tokens[k].content = SubSeq(raw, 2, Len(raw) - 1)

----------------------------------------------------------------------------
(* C3: regex or divide.                                                    *)

\* The step scans the `/` under the cursor as a regular-expression literal:
\* it pushes a RegExp token that starts there, or the literal is unterminated.
OpensRegExp ==
    \/ /\ status' = "scanning"
       /\ Emitted
       /\ EmittedToken.type = "RegExp"
       /\ EmittedToken.raw = slice(src, position, position')
    \/ /\ status' = "panic"
       /\ tokens' = tokens
       /\ get_char(src, position') # "/"

\* The step scans the `/` under the cursor as the divide or the `/=` operator.
ScansDivide ==
    /\ status' = "scanning"
    /\ Emitted
    /\ EmittedToken \in {[type |-> "Arithmetic", op |-> "Divide"],
                         [type |-> "Assign", op |-> "Division"]}

\* C3: at every `/` the dispatch loop reaches outside a function header:
\* after a Name, `)` or `]` token it is scanned as an operator; at the start
\* of the input, after an operator and after a keyword it opens a
\* regular-expression literal.
C3_RegExpOrDivide ==
    [][(Scanning /\ char = "/" /\ ~is_function_identifier) =>
          /\ LastToken.type \in {"Name", "ParenR", "BracketR"} => ScansDivide
          /\ (\/ position = 0
              \/ LastToken.type \in KeywordTypes
              \/ LastToken.type \in OperatorTypes \ {"ParenR", "BracketR"})
             => OpensRegExp]_vars

----------------------------------------------------------------------------
(* C4: the pattern body of a RegExp token.                                 *)

\* C4: every RegExp token's raw text runs from the opening `/` to the
\* closing `/` and the modifier, if any, and its pattern body is exactly the
\* codepoints strictly between the two `/`.
C4_RegExpBody ==
    \A k \in 1..Len(tokens) :
        tokens[k].type = "RegExp" =>
            LET raw     == tokens[k].raw
                closing == IF tokens[k].modifier = "None" THEN Len(raw)
                                                          ELSE Len(raw) - 1
            IN  /\ closing >= 2
                /\ raw[1] = "/"
                /\ raw[closing] = "/"
                /\ tokens[k].content = SubSeq(raw, 2, closing - 1)

----------------------------------------------------------------------------
(* C5: the big-integer suffix.                                             *)

\* C5: a step that pushes a Bigint token leaves the cursor after the whole
\* literal, the `n` included: the cursor has moved by the length of the raw
\* text and the codepoint just before it is the suffix.
C5_BigintConsumesSuffix ==
    [][(Emitted /\ EmittedToken.type = "Bigint") =>
          /\ position' = position + Len(EmittedToken.raw)
          /\ get_char(src, position' - 1) = "n"]_vars

----------------------------------------------------------------------------
(* C6: digit separators.                                                   *)

StripSeparators(s) == SelectSeq(s, LAMBDA c : c # "_")

\* A decimal digit run with single `_` separators, each between two digits.
SeparatedDecimal(s) ==
    /\ s # <<>>
    /\ "_" \in Range(s)
    /\ AllIn(s, Range(DigitChars) \cup {"_"})
    /\ s[1] \notin {"0", "_"}
    /\ s[Len(s)] # "_"
    /\ \A k \in 1..(Len(s) - 1) : ~(s[k] = "_" /\ s[k + 1] = "_")

\* C6: the scan of a separated decimal literal such as `1_000` does not
\* panic and returns with one Number token whose value is that of the digits
\* with the separators removed.
C6_SeparatedNumber ==
    SeparatedDecimal(src) =>
        /\ status # "panic"
        /\ status = "done" =>
               tokens = <<[type |-> "Number", raw |-> src, system |-> "Decimal",
                           value |-> DecimalValue(StripSeparators(src))]>>

----------------------------------------------------------------------------
(* C7: misplaced separators.                                               *)

LeadingSeparator == <<"_", "1">>

DoubleSeparator == <<"1", "_", "_", "0">>

\* C7 as claimed: the scans of `_1` and of `1__0` both abort: neither returns
\* and neither emits a token.
C7_BothRejected ==
    src \in {LeadingSeparator, DoubleSeparator} =>
        status # "done" /\ tokens = <<>>

\* C7, amended: the scan of `1__0` aborts on the second separator, emits no
\* token and never returns; the scan of `_1` does not abort: `_1` never
\* reaches read_numberic and is emitted as the Name `_1`.
C7_SeparatorRejection ==
    /\ src = DoubleSeparator =>
           /\ status # "done"
           /\ tokens = <<>>
           /\ status = "panic" =>
                  error = "Only one underscore is allowed as numeric separator"
    /\ src = LeadingSeparator =>
           /\ status # "panic"
           /\ position > 0 => tokens = <<Name(LeadingSeparator)>>

C7_Witness ==
    /\ src = DoubleSeparator
    /\ status = "panic"
    /\ position = 2

----------------------------------------------------------------------------
(* C8: plain decimal integers.                                             *)

\* C8: the scan of a non-empty run of decimal digits does not panic and
\* returns with exactly one Number token, whose value is the value of the run.
C8_DecimalValue ==
    (src # <<>> /\ AllIn(src, Range(DigitChars))) =>
        /\ status # "panic"
        /\ status = "done" =>
               /\ Len(tokens) = 1
               /\ tokens[1].type = "Number"
               /\ tokens[1].raw = src
               /\ tokens[1].value = DecimalValue(src)

----------------------------------------------------------------------------
(* C9: radix tags.                                                         *)

BinaryDigits == {"0", "1"}

OctalDigits == {"0", "1", "2", "3", "4", "5", "6", "7"}

HexDigits ==
    Range(DigitChars) \cup {"a", "b", "c", "d", "e", "f"}
        \cup {"A", "B", "C", "D", "E", "F"}

\* The radix of an input of the form 0b<binary>, 0x<hex> or 0<octal>.
RadixForm(s) ==
    IF Len(s) >= 3 /\ s[1] = "0" /\ s[2] = "b"
          /\ AllIn(SubSeq(s, 3, Len(s)), BinaryDigits) THEN "Binary"
    ELSE IF Len(s) >= 3 /\ s[1] = "0" /\ s[2] = "x"
          /\ AllIn(SubSeq(s, 3, Len(s)), HexDigits) THEN "Hex"
    ELSE IF Len(s) >= 2 /\ s[1] = "0"
          /\ AllIn(SubSeq(s, 2, Len(s)), OctalDigits) THEN "Octal"
    ELSE "None"

\* C9: the scan of a prefixed literal does not panic and its first token is a
\* numeric token tagged with the radix of the prefix.
C9_RadixTag ==
    RadixForm(src) # "None" =>
        /\ status # "panic"
        /\ status = "done" => tokens # <<>>
        /\ tokens # <<>> =>
               /\ tokens[1].type \in {"Number", "Bigint"}
               /\ tokens[1].system = RadixForm(src)

----------------------------------------------------------------------------
(* C10: only a Name may follow `function`.                                 *)

\* C10: while is_function_identifier is set, a dispatch on anything but
\* whitespace either pushes a Name token or aborts the scan.
C10_OnlyNameAfterFunction ==
    [][(Scanning /\ is_function_identifier /\ ~REG_WHITESPACE(char)) =>
          \/ status' = "panic"
          \/ Emitted /\ EmittedToken.type = "Name"]_vars

----------------------------------------------------------------------------
(* C11: the life of is_function_identifier.                                *)

\* The positions of the Function and Name tokens emitted so far.
FlagTokens == {k \in 1..Len(tokens) : tokens[k].type \in {"Function", "Name"}}

\* C11: is_function_identifier is false at the start, true from the push of a
\* `function` keyword to the push of the next Name, and changed by nothing
\* else: it is set exactly when the last Function-or-Name token pushed so
\* far is a `function` keyword, and a step changes it only by pushing one.
C11_FlagFollowsTokens ==
    /\ [](is_function_identifier =
             (/\ FlagTokens # {}
              /\ tokens[CHOOSE k \in FlagTokens : \A j \in FlagTokens : j <= k].type
                     = "Function"))
    /\ [][is_function_identifier' # is_function_identifier =>
             /\ Emitted
             /\ EmittedToken.type = IF is_function_identifier' THEN "Function"
                                                               ELSE "Name"]_vars

\* The flag was set by `function`, survived whitespace, and was cleared by
\* the Name that followed.
C11_Witness ==
    /\ Len(tokens) = 2
    /\ tokens[1].type = "Function"
    /\ tokens[2].type = "Name"
    /\ ~is_function_identifier
    /\ get_char(src, 8) = " "

----------------------------------------------------------------------------
(* C12: unterminated string literals.                                      *)

\* The number of consecutive backslashes right before s[j], after s[low].
RECURSIVE BackslashRun(_, _, _)
BackslashRun(s, low, j) ==
    IF j - 1 > low /\ s[j - 1] = "\\"
    THEN 1 + BackslashRun(s, low, j - 1)
    ELSE 0

\* s[j] follows an unescaped backslash of the literal opened at s[low].
EscapedAt(s, low, j) == BackslashRun(s, low, j) % 2 = 1

\* Where the string literal opened at s[q] can be closed: at an unescaped
\* quote of the kind that opened it, with no line break in between.
StringClosings(s, q) ==
    {j \in (q + 1)..Len(s) :
        /\ s[j] = s[q]
        /\ ~EscapedAt(s, q, j)
        /\ \A k \in (q + 1)..(j - 1) : ~REG_LINE_BREAK(s[k])}

\* The dispatch loop is about to scan a string literal.
AtString == Scanning /\ REG_STRING_BOUNDARY(char) /\ ~is_function_identifier

\* C12: a string literal with no unescaped matching quote before a line
\* break or the end of the input aborts the scan and pushes no token; a
\* literal that has one is pushed as one String token that ends at the first
\* such quote, whatever quotes of the other kind it holds.
C12_UnterminatedString ==
    [][AtString =>
          LET closings == StringClosings(src, position + 1) IN
          IF closings = {}
          THEN status' = "panic" /\ tokens' = tokens
          ELSE /\ status' = "scanning"
               /\ Emitted
               /\ EmittedToken.type = "String"
               /\ EmittedToken.raw =
                      SubSeq(src, position + 1,
                             CHOOSE j \in closings : \A k \in closings : j <= k)]_vars

\* A `"` literal that holds a `'` and runs into the end of the input.
C12_Witness ==
    /\ src = <<"\"", "a", "'">>
    /\ status = "panic"
    /\ tokens = <<>>
    /\ position = 3

----------------------------------------------------------------------------
(* C13: the reach of an escape.                                            *)

\* The dispatch loop is about to scan a regular-expression literal.
AtRegExp ==
    /\ Scanning
    /\ char = "/"
    /\ ~is_function_identifier
    /\ LET prev == find_prev_char_ignore_whitespace(src, position, overflow_checks)
       IN  prev.error = "" /\ ~slash_is_operator(prev.char)

\* Where the literal opened at s[q] with delimiter s[q] must end: at the first
\* codepoint after s[q] that does not follow an unescaped backslash and is the
\* delimiter or a line break; Len(s) + 1 when the input ends first.
Termination(s, q) ==
    LET ends == {j \in (q + 1)..Len(s) :
                    /\ ~EscapedAt(s, q, j)
                    /\ s[j] = s[q] \/ REG_LINE_BREAK(s[j])}
    IN  IF ends = {} THEN Len(s) + 1
        ELSE CHOOSE j \in ends : \A k \in ends : j <= k

\* Where this step stopped scanning the literal under the cursor: the closing
\* delimiter of the token it pushed, or the codepoint it panicked on.
StoppedAt ==
    IF status' = "panic" THEN position' + 1
    ELSE IF EmittedToken.type = "RegExp" /\ EmittedToken.modifier # "None"
    THEN position'  - 1
    ELSE position'

\* C13: string and regex scanning end exactly at the first delimiter or line
\* break that does not follow an unescaped backslash (or at the end of the
\* input): an escaped delimiter and an escaped line break do not end the
\* literal, and an escape reaches one codepoint only.
C13_EscapeProtectsNext ==
    [][(AtString \/ AtRegExp) =>
          StoppedAt = Termination(src, position + 1)]_vars

----------------------------------------------------------------------------
(* C14: line and column.                                                   *)

\* The number of codepoints of s before the cursor p up to and including the
\* last line break among them; 0 when there is none.
LastBreakBefore(s, p) ==
    LET breaks == {k \in 1..Min(p, Len(s)) : REG_LINE_BREAK(s[k])}
    IN  IF breaks = {} THEN 0
        ELSE CHOOSE k \in breaks : \A j \in breaks : j <= k

\* C14: at every iteration of the dispatch loop, line is 1 plus the number
\* of line breaks before the cursor, and column is the number of codepoints
\* between the last of them (or the start of the input) and the cursor.
C14_LineAndColumn ==
    Scanning =>
        /\ line = 1 + LineBreaksBefore(src, position)
        /\ column = position - LastBreakBefore(src, position)

----------------------------------------------------------------------------
(* C15: longest match.                                                     *)

\* The dispatch loop is about to scan an operator in its last arm.
AtOperator ==
    /\ Scanning
    /\ ~REG_WHITESPACE(char)
    /\ char # "/"
    /\ ~REG_STRING_BOUNDARY(char)
    /\ char # "#"
    /\ ~REG_IDENTIFIER(char)
    /\ ~is_function_identifier

\* The lengths, 1 to 3, of the prefixes of the remaining input that are
\* entries of the punctuator table.
PunctuatorPrefixes(s, p) ==
    {n \in 1..3 :
        /\ p + n <= Len(s)
        /\ \E e \in Punctuators : e[1] = SubSeq(s, p + 1, p + n)}

\* C15: at an operator position read_operator pushes the token of the
\* longest prefix, of at most 3 codepoints, of the remaining input that is in
\* the punctuator table, and aborts, pushing nothing, when there is none,
\* which is when not even the first codepoint is in the table.
C15_LongestMatch ==
    [][AtOperator =>
          LET lengths == PunctuatorPrefixes(src, position) IN
          /\ lengths = {} <=> 1 \notin lengths
          /\ IF lengths = {}
             THEN status' = "panic" /\ tokens' = tokens
             ELSE LET n == CHOOSE n \in lengths : \A m \in lengths : m <= n
                      e == CHOOSE e \in Punctuators :
                               e[1] = SubSeq(src, position + 1, position + n)
                  IN  /\ status' = "scanning"
                      /\ Emitted
                      /\ EmittedToken = [type |-> e[2], op |-> e[3]]]_vars

\* `===` was pushed as one TripleE.
C15_Witness ==
    /\ src = <<"=", "=", "=">>
    /\ tokens = <<[type |-> "Comparation", op |-> "TripleE"]>>

----------------------------------------------------------------------------
(* C16: the statement list.                                                *)

NameTokens == SelectSeq(tokens, LAMBDA t : t.type = "Name")

\* C16: throughout a scan, and so when it returns, the statement list holds
\* one placeholder FunctionDeclaration per Name token pushed, in the order of
\* the pushes and keyed by the name, and nothing else.
C16_StatementPerName ==
    statements =
        [k \in 1..Len(NameTokens) |->
            [type |-> "FunctionDeclaration", id |-> NameTokens[k].name]]

\* The example program has been scanned: 13 tokens, 5 of them names.
C16_Witness ==
    /\ status = "done"
    /\ Len(tokens) = 13
    /\ Len(statements) = 5
    /\ statements[1].id = <<"p", "l", "u", "s">>

----------------------------------------------------------------------------
(* C17: the lookback over a whitespace-only prefix.                        *)

\* The dispatch loop is at a `/` with nothing but whitespace before it.
AtSlashAfterWhitespace ==
    /\ Scanning
    /\ char = "/"
    /\ ~is_function_identifier
    /\ position > 0
    /\ \A k \in 1..position : REG_WHITESPACE(src[k])

\* C17: at a `/` with only whitespace before it, the backward scan never
\* evaluates get_char below index 0, reports no previous character, and the
\* step does not end in an arithmetic overflow.
C17_LookbackStopsAtZero ==
    [][AtSlashAfterWhitespace =>
          LET prev == find_prev_char_ignore_whitespace(src, position,
                                                       overflow_checks)
          IN  /\ prev.lowest >= 0
              /\ prev.char = ""
              /\ prev.error = ""
              /\ error' # "attempt to add with overflow"]_vars

----------------------------------------------------------------------------
(* C18: the cursor stays inside the input.                                 *)

\* The number of codepoints of the lexeme a token was scanned from.
LexemeLength(t) ==
    IF t.type \in {"Number", "Bigint", "RegExp", "String", "PrivateName"}
    THEN Len(t.raw)
    ELSE IF t.type = "Name" THEN Len(t.name)
    ELSE IF t.type \in KeywordTypes
    THEN Len((CHOOSE k \in Keywords : k[2] = t.type)[1])
    ELSE Len((CHOOSE e \in Punctuators : e[2] = t.type /\ e[3] = t.op)[1])

\* C18: the cursor is never past the end of the input, and a step that
\* pushes a token moves the cursor by exactly the length of its lexeme.
C18_CursorInBounds ==
    /\ [](0 <= position /\ position <= Len(src))
    /\ [][Emitted => position' = position + LexemeLength(EmittedToken)]_vars

----------------------------------------------------------------------------
(* C19: termination.                                                       *)

\* C19: every iteration of the dispatch loop runs with the cursor inside the
\* input and either panics or moves the cursor forward by at least one
\* codepoint, and the only other step is the return once the cursor has left
\* the input: Len(src) - position strictly decreases while the scan goes on,
\* so the loop ends after at most Len(src) iterations.
C19_Terminates ==
    [][status = "scanning" =>
          \/ position >= Len(src) /\ status' = "done" /\ position' = position
          \/ position < Len(src) /\ status' = "panic"
          \/ position < Len(src) /\ status' = "scanning"
                                 /\ position' >= position + 1]_vars

\* A `0`-prefixed literal with an `n` suffix has been scanned to the end.
C19_Witness ==
    /\ src = <<"0", "1", "n">>
    /\ status = "done"
    /\ Len(tokens) = 2
    /\ tokens[1].type = "Bigint"

=============================================================================
